---- MODULE Spec2Model ----
(***************************************************************************)
(* Model of source/constructs/lib/constructs-stack.ts: the ConstructsStack *)
(* constructor (one synthesis pass per stack instance), the helpers        *)
(* paramGroup / paramGroupIf, and the deployment of the synthesized        *)
(* template with a parameter valuation.                                    *)
(*                                                                         *)
(* Strings that are matched against a pattern are sequences of one-        *)
(* character strings; other strings are sequences holding one token.       *)
(* A JavaScript object is a record holding exactly the properties that are *)
(* set; `undefined` is the record Undefined.                               *)
(***************************************************************************)
EXTENDS Integers, Sequences, FiniteSets, TLC

\* Longest ApiDomain value supplied to a deployment.
MaxLen == 3
\* Longest handle list given to a direct call of paramGroup / paramGroupIf.
MaxHandles == 3

\* The stack instances (synthesis passes) of one process.
Passes == {1, 2}

Undefined == [undefined |-> TRUE]
\* A `const` local that has not been initialised yet.
Unassigned == [unassigned |-> TRUE]

Truthy(v) == v # Undefined /\ v # Unassigned

SeqToSet(s) == {s[i] : i \in 1..Len(s)}

(***************************************************************************)
(* Parameter declarations, lines 45-132.                                   *)
(***************************************************************************)
DomainPattern ==
    "^$|(([a-zA-Z0-9]|[a-zA-Z0-9][a-zA-Z0-9\\-]*[a-zA-Z0-9])\\.)*([A-Za-z0-9]|[A-Za-z0-9][A-Za-z0-9\\-]*[A-Za-z0-9])$"

YesNo == {<<"Yes">>, <<"No">>}

LogRetentionValues ==
    {<<"1">>, <<"3">>, <<"5">>, <<"7">>, <<"14">>, <<"30">>, <<"60">>, <<"90">>, <<"120">>,
     <<"150">>, <<"180">>, <<"365">>, <<"400">>, <<"545">>, <<"731">>, <<"1827">>, <<"3653">>}

\* A declaration of ApiDomain that leaves the pattern out.
ApiDomainPropsNoPattern == [type |-> "String"]

ApiDomainProps == [type |-> "String", allowedPattern |-> DomainPattern]

\* The statements that declare parameters, in source order: the local that
\* receives the handle, the construct id, whether the declaration goes through
\* cfnParamIf(IS_CHINA_REGION, ...), and the CfnParameterProps.
ParamDecls ==
    << [var |-> "apiDomain", id |-> "ApiDomain", conditional |-> TRUE,
        props |-> ApiDomainProps],
       [var |-> "apiCertificateIamId", id |-> "ApiCertificateIamId", conditional |-> TRUE,
        props |-> [type |-> "String", default |-> <<>>]],
       [var |-> "deployDemoUiParameter", id |-> "DeployDemoUI", conditional |-> FALSE,
        props |-> [type |-> "String", default |-> <<"Yes">>, allowedValues |-> YesNo]],
       [var |-> "demoUIDomain", id |-> "DemoUIDomain", conditional |-> TRUE,
        props |-> [type |-> "String", allowedPattern |-> DomainPattern, default |-> <<>>]],
       [var |-> "demoUICertificateIamId", id |-> "DemoUICertificateIamId", conditional |-> TRUE,
        props |-> [type |-> "String", default |-> <<>>]],
       [var |-> "corsEnabledParameter", id |-> "CorsEnabled", conditional |-> FALSE,
        props |-> [type |-> "String", default |-> <<"No">>, allowedValues |-> YesNo]],
       [var |-> "corsOriginParameter", id |-> "CorsOrigin", conditional |-> FALSE,
        props |-> [type |-> "String", default |-> <<"*">>]],
       [var |-> "sourceBucketsParameter", id |-> "SourceBuckets", conditional |-> FALSE,
        props |-> [type |-> "String",
                   default |-> <<"defaultBucket, bucketNo2, bucketNo3, ...">>,
                   allowedPattern |-> ".+"]],
       [var |-> "logRetentionPeriodParameter", id |-> "LogRetentionPeriod", conditional |-> FALSE,
        props |-> [type |-> "Number", default |-> <<"1">>, allowedValues |-> LogRetentionValues]],
       [var |-> "autoWebPParameter", id |-> "AutoWebP", conditional |-> FALSE,
        props |-> [type |-> "String", default |-> <<"No">>, allowedValues |-> YesNo]],
       [var |-> "enableSignatureParameter", id |-> "EnableSignature", conditional |-> FALSE,
        props |-> [type |-> "String", default |-> <<"No">>, allowedValues |-> YesNo]],
       [var |-> "secretsManagerParameter", id |-> "SecretsManagerSecret", conditional |-> FALSE,
        props |-> [type |-> "String", default |-> <<>>]],
       [var |-> "secretsManagerKeyParameter", id |-> "SecretsManagerKey", conditional |-> FALSE,
        props |-> [type |-> "String", default |-> <<>>]],
       [var |-> "enableDefaultFallbackImageParameter", id |-> "EnableDefaultFallbackImage",
        conditional |-> FALSE,
        props |-> [type |-> "String", default |-> <<"No">>, allowedValues |-> YesNo]],
       [var |-> "fallbackImageS3BucketParameter", id |-> "FallbackImageS3Bucket",
        conditional |-> FALSE,
        props |-> [type |-> "String", default |-> <<>>]],
       [var |-> "fallbackImageS3KeyParameter", id |-> "FallbackImageS3Key", conditional |-> FALSE,
        props |-> [type |-> "String", default |-> <<>>]] >>

NumParams == Len(ParamDecls)

Locals == {ParamDecls[i].var : i \in 1..NumParams}

(***************************************************************************)
(* paramGroup and paramGroupIf, lines 11-25.                               *)
(***************************************************************************)
\* paramGroup without the trailing filter.
paramGroupUnfiltered(label, params) ==
    [Label |-> [default |-> label],
     Parameters |-> [i \in 1..Len(params) |->
                       IF Truthy(params[i]) THEN params[i].logicalId ELSE ""]]

paramGroup(label, params) ==
    [Label |-> [default |-> label],
     Parameters |->
        SelectSeq([i \in 1..Len(params) |->
                      IF Truthy(params[i]) THEN params[i].logicalId ELSE ""],
                  LAMBDA id : id # "")]

paramGroupIf(expression, label, params) ==
    IF expression THEN paramGroup(label, params) ELSE Undefined

(***************************************************************************)
(* State.                                                                  *)
(***************************************************************************)
VARIABLES
    CHINA_REGION,           \* process.env.CHINA_REGION, read once at module load
    handlerSpec,            \* per pass: the conditions the child component is written to create
    status,                 \* per pass: "idle", "running", "done" or "failed"
    pc,                     \* per pass: index into Statements of the next statement
    locals,                 \* per pass: the constructor's const locals holding parameter handles
    parameters,             \* per pass: the CfnParameters of the stack, in declaration order
    children,               \* per pass: the construct ids used in the stack's scope
    sihProps,               \* per pass: the property bag handed to the child component
    metadata,               \* per pass: templateOptions.metadata
    serverlessImageHander,  \* per pass: the child component
    outputs,                \* per pass: the CfnOutputs of the stack, in declaration order
    deployment,             \* per pass: the deployment of the synthesized template
    call,                   \* the arguments of a direct call of paramGroup / paramGroupIf
    returned                \* what that call returned

passVars ==
    <<status, pc, locals, parameters, children, sihProps, metadata,
      serverlessImageHander, outputs>>

vars ==
    <<CHINA_REGION, handlerSpec, status, pc, locals, parameters, children, sihProps,
      metadata, serverlessImageHander, outputs, deployment, call, returned>>

\* const IS_CHINA_REGION = !!CHINA_REGION : an unset variable and the empty
\* string are both falsy.
IS_CHINA_REGION == CHINA_REGION # Undefined /\ CHINA_REGION.value # ""

EnvValues == {Undefined, [value |-> ""], [value |-> "true"]}

ConditionNames ==
    {"ApiCertificateCondition", "DemoUICertificateCondition",
     "DeployDemoUICondition", "EnableCorsCondition"}

\* The constructor body as a sequence of statements.
Statements ==
    [i \in 1..NumParams |-> "CfnParameter"] \o
    << "sihProps", "metadata", "Send", "ServerlessImageHandler",
       "ApiEndpoint", "ApiEndpointCNAME", "DemoUrl", "DemoUrlCNAME",
       "SourceBucketsOutput", "CorsEnabledOutput", "CorsOriginOutput",
       "LogRetentionPeriodOutput" >>

At(p, stmt) == status[p] = "running" /\ Statements[pc[p]] = stmt

NoDeployment == [status |-> "NONE"]

NoCall == [fn |-> "none"]

\* A stack instance right after super(scope, id, props).
FreshPass(st) ==
    /\ status = [p \in Passes |-> st[p]]
    /\ pc = [p \in Passes |-> 1]
    /\ locals = [p \in Passes |-> [v \in Locals |-> Unassigned]]
    /\ parameters = [p \in Passes |-> <<>>]
    /\ children = [p \in Passes |-> {}]
    /\ sihProps = [p \in Passes |-> Unassigned]
    /\ metadata = [p \in Passes |-> Undefined]
    /\ serverlessImageHander = [p \in Passes |-> Unassigned]
    /\ outputs = [p \in Passes |-> <<>>]
    /\ deployment = [p \in Passes |-> NoDeployment]

(***************************************************************************)
(* Control flow of the constructor.                                        *)
(***************************************************************************)
\* The statement completed normally: go to the next one, or return.
Advance(p) ==
    /\ pc' = [pc EXCEPT ![p] = @ + 1]
    /\ status' = [status EXCEPT ![p] = IF pc[p] = Len(Statements) THEN "done" ELSE @]

\* The statement threw: the constructor is left where it stands.
Throw(p) ==
    /\ pc' = pc
    /\ status' = [status EXCEPT ![p] = "failed"]

environment == <<CHINA_REGION, handlerSpec, deployment, call, returned>>

(***************************************************************************)
(* cfnParamIf and cfnParam, lines 34-42.  `new CfnParameter(this, id,      *)
(* props)` adds the construct to the stack's scope and throws when the id  *)
(* is taken.  Each operator yields the handle returned and the stack's     *)
(* registry after the call.                                                *)
(***************************************************************************)
\* A registry of construct ids shared by all stack instances of the process.
NewCfnParameterSharedScope(p, id, props) ==
    [threw |-> id \in UNION {children[q] : q \in Passes},
     handle |-> [logicalId |-> id],
     parameters |-> Append(parameters[p], [id |-> id, props |-> props]),
     children |-> children[p] \cup {id}]

NewCfnParameter(p, id, props) ==
    [threw |-> id \in children[p],
     handle |-> [logicalId |-> id],
     parameters |-> Append(parameters[p], [id |-> id, props |-> props]),
     children |-> children[p] \cup {id}]

\* cfnParamIf that declares the parameter whatever the flag.
cfnParamIfAlways(p, expression, id, props) ==
    [threw |-> id \in children[p],
     handle |-> [logicalId |-> id],
     parameters |-> Append(parameters[p], [id |-> id, props |-> props]),
     children |-> children[p] \cup {id}]

cfnParamIf(p, expression, id, props) ==
    IF expression
    THEN NewCfnParameter(p, id, props)
    ELSE [threw |-> FALSE, handle |-> Undefined,
          parameters |-> parameters[p], children |-> children[p]]

cfnParam(p, id, props) == NewCfnParameter(p, id, props)

\* One of the sixteen `const x = cfnParam(...)` / `cfnParamIf(...)` statements.
CfnParamStep(p) ==
    /\ At(p, "CfnParameter")
    /\ LET d == ParamDecls[pc[p]]
           r == IF d.conditional
                THEN cfnParamIf(p, IS_CHINA_REGION, d.id, d.props)
                ELSE cfnParam(p, d.id, d.props)
       IN  IF r.threw
           THEN /\ Throw(p)
                /\ UNCHANGED <<locals, parameters, children>>
           ELSE /\ Advance(p)
                /\ locals' = [locals EXCEPT ![p][d.var] = r.handle]
                /\ parameters' = [parameters EXCEPT ![p] = r.parameters]
                /\ children' = [children EXCEPT ![p] = r.children]
    /\ UNCHANGED <<sihProps, metadata, serverlessImageHander, outputs, environment>>

(***************************************************************************)
(* sihProps, lines 135-155: shorthand properties, one per local.           *)
(***************************************************************************)
SihProps(p) == [k \in Locals |-> locals[p][k]]

SihPropsStep(p) ==
    /\ At(p, "sihProps")
    /\ Advance(p)
    /\ sihProps' = [sihProps EXCEPT ![p] = SihProps(p)]
    /\ UNCHANGED <<locals, parameters, children, metadata, serverlessImageHander,
                   outputs, environment>>

(***************************************************************************)
(* templateOptions.metadata, lines 164-181.                                *)
(***************************************************************************)
SignatureLabel ==
    "Image URL Signature (Note: Enabling signature is not compatible with previous image URLs, which could result in broken image links. Please refer to the implementation guide for details: https://docs.aws.amazon.com/solutions/latest/serverless-image-handler/considerations.html)"

FallbackLabel ==
    "Default Fallback Image (Note: Enabling default fallback image returns the default fallback image instead of JSON object when error happens. Please refer to the implementation guide for details: https://docs.aws.amazon.com/solutions/latest/serverless-image-handler/considerations.html)"

ParameterGroups(p) ==
    LET l == locals[p]
    IN  SelectSeq(
          << paramGroupIf(IS_CHINA_REGION, "API Configuration",
                          <<l.apiDomain, l.apiCertificateIamId>>),
             paramGroup("CORS Options", <<l.corsEnabledParameter, l.corsOriginParameter>>),
             paramGroup("Image Sources", <<l.sourceBucketsParameter>>),
             paramGroup("Demo UI",
                        <<l.deployDemoUiParameter, l.demoUIDomain, l.demoUICertificateIamId>>),
             paramGroup("Event Logging", <<l.logRetentionPeriodParameter>>),
             paramGroup(SignatureLabel,
                        <<l.enableSignatureParameter, l.secretsManagerParameter,
                          l.secretsManagerKeyParameter>>),
             paramGroup(FallbackLabel,
                        <<l.enableDefaultFallbackImageParameter,
                          l.fallbackImageS3BucketParameter, l.fallbackImageS3KeyParameter>>),
             paramGroup("Auto WebP", <<l.autoWebPParameter>>) >>,
          LAMBDA g : g # Undefined)

MetadataStep(p) ==
    /\ At(p, "metadata")
    /\ Advance(p)
    /\ metadata' = [metadata EXCEPT ![p] =
                      \* the 'AWS::CloudFormation::Interface' entry
                      [Interface |-> [ParameterGroups |-> ParameterGroups(p)]]]
    /\ UNCHANGED <<locals, parameters, children, sihProps, serverlessImageHander,
                   outputs, environment>>

(***************************************************************************)
(* new cdk.CfnMapping(this, 'Send', ...), lines 184-190.                   *)
(***************************************************************************)
MappingStep(p) ==
    /\ At(p, "Send")
    /\ IF "Send" \in children[p]
       THEN Throw(p) /\ UNCHANGED children
       ELSE Advance(p) /\ children' = [children EXCEPT ![p] = @ \cup {"Send"}]
    /\ UNCHANGED <<locals, parameters, sihProps, metadata, serverlessImageHander,
                   outputs, environment>>

(***************************************************************************)
(* new ServerlessImageHandler(this, 'ServerlessImageHandler', sihProps),   *)
(* line 193.  The component creates the conditions it is written to        *)
(* create; a certificate condition is built on the certificate parameter   *)
(* and exists only when that handle was passed in.                         *)
(***************************************************************************)
ServerlessImageHandler(written, props) ==
    [node |->
       [children |->
          {c \in written :
              /\ c = "ApiCertificateCondition" => Truthy(props.apiCertificateIamId)
              /\ c = "DemoUICertificateCondition" => Truthy(props.demoUICertificateIamId)}]]

HandlerStep(p) ==
    /\ At(p, "ServerlessImageHandler")
    /\ IF "ServerlessImageHandler" \in children[p]
       THEN Throw(p) /\ UNCHANGED <<children, serverlessImageHander>>
       ELSE /\ Advance(p)
            /\ children' = [children EXCEPT ![p] = @ \cup {"ServerlessImageHandler"}]
            /\ serverlessImageHander' =
                 [serverlessImageHander EXCEPT ![p] =
                    ServerlessImageHandler(handlerSpec[p], sihProps[p])]
    /\ UNCHANGED <<locals, parameters, sihProps, metadata, outputs, environment>>

(***************************************************************************)
(* Output value expressions: cdk.Fn.sub with one ${...} placeholder,       *)
(* cdk.Fn.conditionIf, cdk.Fn.ref / CfnParameter.valueAsString.            *)
(***************************************************************************)
Sub(prefix, var, suffix) ==
    [fn |-> "Fn::Sub", prefix |-> prefix, var |-> var, suffix |-> suffix]

conditionIf(conditionId, valueIfTrue, valueIfFalse) ==
    [fn |-> "Fn::If", condition |-> conditionId,
     valueIfTrue |-> valueIfTrue, valueIfFalse |-> valueIfFalse]

Ref(logicalId) == [fn |-> "Ref", ref |-> logicalId]

valueAsString(param) == Ref(param.logicalId)

(***************************************************************************)
(* serverlessImageHander.node.tryFindChild(id) / .findChild(id): the       *)
(* former yields undefined for a missing child, the latter throws.         *)
(***************************************************************************)
tryFindChild(p, id) ==
    IF id \in serverlessImageHander[p].node.children
    THEN [logicalId |-> id]
    ELSE Undefined

\* findChild that yields undefined for a missing child instead of throwing.
findChildLenient(p, id) ==
    [threw |-> FALSE,
     child |-> IF id \in serverlessImageHander[p].node.children
               THEN [logicalId |-> id] ELSE Undefined]

findChild(p, id) ==
    LET c == tryFindChild(p, id)
    IN  IF c = Undefined THEN [threw |-> TRUE] ELSE [threw |-> FALSE, child |-> c]

(***************************************************************************)
(* cfnOutput and cfnOutputIf, lines 195-203, and overrideLogicalId.        *)
(***************************************************************************)
NewCfnOutput(p, id, props) ==
    [threw |-> id \in children[p],
     outputs |-> Append(outputs[p], [id |-> id, logicalId |-> id, props |-> props]),
     children |-> children[p] \cup {id}]

cfnOutput(p, id, props) == NewCfnOutput(p, id, props)

cfnOutputIf(p, expression, id, props) ==
    IF expression
    THEN NewCfnOutput(p, id, props)
    ELSE [threw |-> FALSE, outputs |-> outputs[p], children |-> children[p]]

\* Called on the CfnOutput that cfnOutput just returned, the last one declared.
overrideLogicalId(r, newLogicalId) ==
    IF r.threw THEN r
    ELSE [r EXCEPT !.outputs[Len(r.outputs)].logicalId = newLogicalId]

\* The effect of an output statement whose call yielded r.
Declare(p, r) ==
    /\ IF r.threw
       THEN Throw(p) /\ UNCHANGED <<outputs, children>>
       ELSE /\ Advance(p)
            /\ outputs' = [outputs EXCEPT ![p] = r.outputs]
            /\ children' = [children EXCEPT ![p] = r.children]
    /\ UNCHANGED <<locals, parameters, sihProps, metadata, serverlessImageHander,
                   environment>>

\* The effect of an output statement whose argument threw.
ArgumentThrew(p) ==
    /\ Throw(p)
    /\ UNCHANGED <<locals, parameters, children, sihProps, metadata,
                   serverlessImageHander, outputs, environment>>

(***************************************************************************)
(* The outputs, lines 206-245.                                             *)
(***************************************************************************)
\* ApiEndpoint with the two branches of the conditionIf exchanged.
ApiEndpointValueSwapped(p) ==
    IF "ApiCertificateCondition" \in serverlessImageHander[p].node.children
    THEN [fn |-> "Fn::If", condition |-> "ApiCertificateCondition",
          valueIfTrue |-> [fn |-> "Fn::Sub", prefix |-> <<"http://">>,
                           var |-> "ApiDomain", suffix |-> <<>>],
          valueIfFalse |-> [fn |-> "Fn::Sub", prefix |-> <<"https://">>,
                            var |-> "ApiDomain", suffix |-> <<>>]]
    ELSE [fn |-> "Fn::Sub", prefix |-> <<"https://">>,
          var |-> "ImageHandlerDistribution.DomainName", suffix |-> <<>>]

ApiEndpointValue(p) ==
    IF Truthy(tryFindChild(p, "ApiCertificateCondition"))
    THEN conditionIf("ApiCertificateCondition",
                     Sub(<<"https://">>, "ApiDomain", <<>>),
                     Sub(<<"http://">>, "ApiDomain", <<>>))
    ELSE Sub(<<"https://">>, "ImageHandlerDistribution.DomainName", <<>>)

ApiEndpointStep(p) ==
    /\ At(p, "ApiEndpoint")
    /\ Declare(p, cfnOutput(p, "ApiEndpoint",
                            [value |-> ApiEndpointValue(p), condition |-> Undefined]))

ApiEndpointCNAME(p) ==
    cfnOutputIf(p, IS_CHINA_REGION, "ApiEndpointCNAME",
                [value |-> Sub(<<>>, "ImageHandlerDistribution.DomainName", <<>>),
                 condition |-> Undefined])

ApiEndpointCNAMEStep(p) ==
    /\ At(p, "ApiEndpointCNAME")
    /\ Declare(p, ApiEndpointCNAME(p))

\* DemoUrl that takes the custom-domain path without looking for the condition.
DemoUrlValueUnchecked(p) ==
    [fn |-> "Fn::If", condition |-> "DemoUICertificateCondition",
     valueIfTrue |-> [fn |-> "Fn::Sub", prefix |-> <<"https://">>,
                      var |-> "DemoUIDomain", suffix |-> <<"/index.html">>],
     valueIfFalse |-> [fn |-> "Fn::Sub", prefix |-> <<"http://">>,
                       var |-> "DemoUIDomain", suffix |-> <<"/index.html">>]]

DemoUrlValue(p) ==
    IF Truthy(tryFindChild(p, "DemoUICertificateCondition"))
    THEN conditionIf("DemoUICertificateCondition",
                     Sub(<<"https://">>, "DemoUIDomain", <<"/index.html">>),
                     Sub(<<"http://">>, "DemoUIDomain", <<"/index.html">>))
    ELSE Sub(<<"https://">>, "DemoDistribution.DomainName", <<"/index.html">>)

\* DemoUrl guarded by the CORS condition.
DemoUrlConditionCors(p) ==
    IF "EnableCorsCondition" \in serverlessImageHander[p].node.children
    THEN [threw |-> FALSE, child |-> [logicalId |-> "EnableCorsCondition"]]
    ELSE [threw |-> TRUE]

DemoUrlCondition(p) == findChild(p, "DeployDemoUICondition")

DemoUrlStep(p) ==
    /\ At(p, "DemoUrl")
    /\ LET c == DemoUrlCondition(p)
       IN  IF c.threw
           THEN ArgumentThrew(p)
           ELSE Declare(p, cfnOutput(p, "DemoUrl",
                                     [value |-> DemoUrlValue(p), condition |-> c.child]))

\* DemoUrlCNAME guarded like DemoUrl.
DemoUrlCNAMEGuarded(p) ==
    IF IS_CHINA_REGION
    THEN [threw |-> "DemoUrlCNAME" \in children[p],
          outputs |-> Append(outputs[p],
             [id |-> "DemoUrlCNAME", logicalId |-> "DemoUrlCNAME",
              props |-> [value |-> [fn |-> "Fn::Sub", prefix |-> <<>>,
                                    var |-> "DemoDistribution.DomainName", suffix |-> <<>>],
                         condition |-> [logicalId |-> "DeployDemoUICondition"]]]),
          children |-> children[p] \cup {"DemoUrlCNAME"}]
    ELSE [threw |-> FALSE, outputs |-> outputs[p], children |-> children[p]]

DemoUrlCNAME(p) ==
    cfnOutputIf(p, IS_CHINA_REGION, "DemoUrlCNAME",
                [value |-> Sub(<<>>, "DemoDistribution.DomainName", <<>>),
                 condition |-> Undefined])

DemoUrlCNAMEStep(p) ==
    /\ At(p, "DemoUrlCNAME")
    /\ Declare(p, DemoUrlCNAME(p))

SourceBucketsOutputStep(p) ==
    /\ At(p, "SourceBucketsOutput")
    /\ Declare(p, overrideLogicalId(
                    cfnOutput(p, "SourceBucketsOutput",
                              [value |-> valueAsString(locals[p].sourceBucketsParameter),
                               condition |-> Undefined]),
                    "SourceBuckets"))

CorsEnabledOutputStep(p) ==
    /\ At(p, "CorsEnabledOutput")
    /\ Declare(p, overrideLogicalId(
                    cfnOutput(p, "CorsEnabledOutput",
                              [value |-> valueAsString(locals[p].corsEnabledParameter),
                               condition |-> Undefined]),
                    "CorsEnabled"))

\* CorsOrigin left without a guard.
CorsOriginConditionNone(p) == [threw |-> FALSE, child |-> Undefined]

CorsOriginCondition(p) == findChild(p, "EnableCorsCondition")

CorsOriginOutputStep(p) ==
    /\ At(p, "CorsOriginOutput")
    /\ LET c == CorsOriginCondition(p)
       IN  IF c.threw
           THEN ArgumentThrew(p)
           ELSE Declare(p, overrideLogicalId(
                             cfnOutput(p, "CorsOriginOutput",
                                       [value |-> valueAsString(locals[p].corsOriginParameter),
                                        condition |-> c.child]),
                             "CorsOrigin"))

LogRetentionPeriodOutputStep(p) ==
    /\ At(p, "LogRetentionPeriodOutput")
    /\ Declare(p, overrideLogicalId(
                    cfnOutput(p, "LogRetentionPeriodOutput",
                              [value |-> Ref("LogRetentionPeriod"), condition |-> Undefined]),
                    "LogRetentionPeriod"))

\* One statement of the constructor of stack instance p.
Construct(p) ==
    \/ CfnParamStep(p)
    \/ SihPropsStep(p)
    \/ MetadataStep(p)
    \/ MappingStep(p)
    \/ HandlerStep(p)
    \/ ApiEndpointStep(p)
    \/ ApiEndpointCNAMEStep(p)
    \/ DemoUrlStep(p)
    \/ DemoUrlCNAMEStep(p)
    \/ SourceBucketsOutputStep(p)
    \/ CorsEnabledOutputStep(p)
    \/ CorsOriginOutputStep(p)
    \/ LogRetentionPeriodOutputStep(p)

(***************************************************************************)
(* Deployment of the synthesized template with a parameter valuation.      *)
(* AllowedPattern must match the entire value; AllowedValues must contain  *)
(* it; both are checked before anything is created.                        *)
(***************************************************************************)
AlNum == {"a", "z", "A", "Z", "0", "9"}

\* [a-zA-Z0-9]|[a-zA-Z0-9][a-zA-Z0-9\-]*[a-zA-Z0-9]
IsLabel(s) ==
    /\ Len(s) >= 1
    /\ s[1] \in AlNum
    /\ s[Len(s)] \in AlNum
    /\ \A i \in 1..Len(s) : s[i] \in AlNum \cup {"-"}

\* (label\.)*label
RECURSIVE IsDomainName(_)
IsDomainName(s) ==
    \/ IsLabel(s)
    \/ \E i \in 2..(Len(s) - 1) :
          /\ s[i] = "."
          /\ IsLabel(SubSeq(s, 1, i - 1))
          /\ IsDomainName(SubSeq(s, i + 1, Len(s)))

MatchesPattern(pattern, value) ==
    CASE pattern = DomainPattern -> value = <<>> \/ IsDomainName(value)
      [] pattern = ".+" -> Len(value) >= 1

ValidValue(props, value) ==
    /\ "allowedValues" \in DOMAIN props => value \in props.allowedValues
    /\ "allowedPattern" \in DOMAIN props => MatchesPattern(props.allowedPattern, value)

\* The conditions as the child component defines them.
ConditionHolds(conditionId, values) ==
    CASE conditionId = "DeployDemoUICondition" -> values["DeployDemoUI"] = <<"Yes">>
      [] conditionId = "EnableCorsCondition" -> values["CorsEnabled"] = <<"Yes">>
      [] conditionId = "ApiCertificateCondition" -> values["ApiCertificateIamId"] # <<>>
      [] conditionId = "DemoUICertificateCondition" -> values["DemoUICertificateIamId"] # <<>>

\* A ${...} placeholder or Ref names a parameter, or else an attribute of a
\* resource of the child component, which stands for itself.
Lookup(var, values) == IF var \in DOMAIN values THEN values[var] ELSE <<var>>

ResolveLeaf(e, values) ==
    CASE e.fn = "Fn::Sub" -> e.prefix \o Lookup(e.var, values) \o e.suffix
      [] e.fn = "Ref" -> Lookup(e.ref, values)

Resolve(e, values) ==
    IF e.fn = "Fn::If"
    THEN IF ConditionHolds(e.condition, values)
         THEN ResolveLeaf(e.valueIfTrue, values)
         ELSE ResolveLeaf(e.valueIfFalse, values)
    ELSE ResolveLeaf(e, values)

Emitted(o, values) ==
    o.props.condition = Undefined \/ ConditionHolds(o.props.condition.logicalId, values)

RenderedOutputs(p, values) ==
    LET emitted == {o \in SeqToSet(outputs[p]) : Emitted(o, values)}
    IN  [id \in {o.logicalId : o \in emitted} |->
            Resolve((CHOOSE o \in emitted : o.logicalId = id).props.value, values)]

NoOutputs == [id \in {} |-> <<>>]

CreateStack(p, values) ==
    IF \A i \in 1..Len(parameters[p]) :
          ValidValue(parameters[p][i].props, values[parameters[p][i].id])
    THEN [status |-> "CREATE_COMPLETE", values |-> values,
          Outputs |-> RenderedOutputs(p, values)]
    ELSE [status |-> "VALIDATION_FAILED", values |-> values, Outputs |-> NoOutputs]

\* The values a deployment is given.
Alphabet == {"a", "-", ".", "_"}

Strings(n) == UNION {[1..k -> Alphabet] : k \in 0..n}

DemoUIDomainSamples == {<<>>, <<"a">>, <<"a", ".", "a">>, <<"_">>}

CertificateIdSamples == {<<>>, <<"ASCAEXAMPLECERTID">>}

CorsOriginSamples == {<<"*">>, <<"https://example.com">>}

\* Parameters that are not supplied take their default.
Valuation(p, supplied) ==
    [id \in {parameters[p][i].id : i \in 1..Len(parameters[p])} |->
        IF id \in DOMAIN supplied
        THEN supplied[id]
        ELSE (CHOOSE d \in SeqToSet(parameters[p]) : d.id = id).props.default]

Deploy(p) ==
    /\ status[p] = "done"
    /\ deployment[p] = NoDeployment
    /\ \E apiDomain \in Strings(MaxLen), demoUIDomain \in DemoUIDomainSamples,
          apiCertificateIamId \in CertificateIdSamples,
          demoUICertificateIamId \in CertificateIdSamples,
          deployDemoUI \in YesNo, corsEnabled \in YesNo, corsOrigin \in CorsOriginSamples :
          deployment' = [deployment EXCEPT ![p] =
              CreateStack(p, Valuation(p,
                  [ApiDomain |-> apiDomain, DemoUIDomain |-> demoUIDomain,
                   ApiCertificateIamId |-> apiCertificateIamId,
                   DemoUICertificateIamId |-> demoUICertificateIamId,
                   DeployDemoUI |-> deployDemoUI, CorsEnabled |-> corsEnabled,
                   CorsOrigin |-> corsOrigin]))]
    /\ UNCHANGED <<passVars, CHINA_REGION, handlerSpec, call, returned>>

(***************************************************************************)
(* Direct calls of paramGroup and paramGroupIf.                            *)
(***************************************************************************)
HandleSamples == {Undefined, [logicalId |-> "CorsEnabled"], [logicalId |-> "CorsOrigin"]}

HandleLists == UNION {[1..k -> HandleSamples] : k \in 0..MaxHandles}

LabelSamples == {"CORS Options", "API Configuration"}

CallParamGroup ==
    /\ call.fn = "pending"
    /\ call' = [call EXCEPT !.fn = "paramGroup"]
    /\ returned' = paramGroup(call.label, call.params)
    /\ UNCHANGED <<passVars, CHINA_REGION, handlerSpec, deployment>>

CallParamGroupIf ==
    /\ call.fn = "pending"
    /\ call' = [call EXCEPT !.fn = "paramGroupIf"]
    /\ returned' = paramGroupIf(call.expression, call.label, call.params)
    /\ UNCHANGED <<passVars, CHINA_REGION, handlerSpec, deployment>>

(***************************************************************************)
(* Specifications.                                                         *)
(***************************************************************************)
\* One stack instance is constructed and its template deployed once.
Init ==
    /\ CHINA_REGION \in EnvValues
    /\ handlerSpec \in [Passes -> SUBSET ConditionNames]
    /\ handlerSpec[2] = ConditionNames
    /\ FreshPass([p \in Passes |-> IF p = 1 THEN "running" ELSE "idle"])
    /\ call = NoCall
    /\ returned = Undefined

Next ==
    \/ Construct(1)
    \/ Deploy(1)

Spec == Init /\ [][Next]_vars

\* Two stack instances of one process are constructed, their statements
\* interleaved in any order; the second is given the same child component as
\* the first, or the one that creates every condition.
InitPasses ==
    /\ CHINA_REGION \in EnvValues
    /\ handlerSpec \in [Passes -> SUBSET ConditionNames]
    /\ handlerSpec[2] \in {handlerSpec[1], ConditionNames}
    /\ FreshPass([p \in Passes |-> "running"])
    /\ call = NoCall
    /\ returned = Undefined

NextPasses == \E p \in Passes : Construct(p)

SpecPasses == InitPasses /\ [][NextPasses]_vars

\* paramGroup / paramGroupIf are called on arbitrary arguments, and one stack
\* instance is constructed.
InitGroups ==
    /\ CHINA_REGION \in EnvValues
    /\ handlerSpec = [p \in Passes |-> ConditionNames]
    /\ FreshPass([p \in Passes |-> IF p = 1 THEN "running" ELSE "idle"])
    /\ call \in [fn : {"pending"}, expression : BOOLEAN, label : LabelSamples,
                 params : HandleLists]
    /\ returned = Undefined

NextGroups ==
    \/ CallParamGroup
    \/ CallParamGroupIf
    \/ Construct(1)

SpecGroups == InitGroups /\ [][NextGroups]_vars

(***************************************************************************)
(* Properties.                                                             *)
(***************************************************************************)
FourRegionOnly == {"ApiDomain", "ApiCertificateIamId", "DemoUIDomain", "DemoUICertificateIamId"}

Declared(p) == {parameters[p][i].id : i \in 1..Len(parameters[p])}

OutputIds(p) == {outputs[p][i].id : i \in 1..Len(outputs[p])}

Created(p) ==
    IF serverlessImageHander[p] = Unassigned THEN {}
    ELSE serverlessImageHander[p].node.children

Complete(p) == deployment[p].status = "CREATE_COMPLETE"

\* The output declared under construct id `id`.
OutputOf(p, id) == CHOOSE o \in SeqToSet(outputs[p]) : o.id = id

\* C1: with the region flag false, none of the four region-only parameters is
\* ever in the registry (nor is a handle to one held), and neither
\* ApiEndpointCNAME nor DemoUrlCNAME is ever declared or rendered.
C1_RegionOnlyAbsent ==
    \A p \in Passes :
        ~IS_CHINA_REGION =>
            /\ Declared(p) \cap FourRegionOnly = {}
            /\ children[p] \cap FourRegionOnly = {}
            /\ \A k \in Locals :
                  Truthy(locals[p][k]) => locals[p][k].logicalId \notin FourRegionOnly
            /\ OutputIds(p) \cap {"ApiEndpointCNAME", "DemoUrlCNAME"} = {}
            /\ children[p] \cap {"ApiEndpointCNAME", "DemoUrlCNAME"} = {}
            /\ Complete(p) =>
                 DOMAIN deployment[p].Outputs \cap {"ApiEndpointCNAME", "DemoUrlCNAME"} = {}

C1_Witness ==
    /\ ~IS_CHINA_REGION
    /\ status[1] = "done"
    /\ Len(parameters[1]) = 12
    /\ Complete(1)

\* C2: in both region modes DemoUrl is declared with DeployDemoUICondition as
\* its guard; in the rendered result it is absent when DeployDemoUI = "No"
\* and present when DeployDemoUI = "Yes", on either value path.
C2_DemoUrlGuard ==
    \A p \in Passes :
        /\ status[p] = "done" => "DemoUrl" \in OutputIds(p)
        /\ "DemoUrl" \in OutputIds(p) =>
              OutputOf(p, "DemoUrl").props.condition = [logicalId |-> "DeployDemoUICondition"]
        /\ Complete(p) =>
              /\ deployment[p].values["DeployDemoUI"] = <<"No">> =>
                    "DemoUrl" \notin DOMAIN deployment[p].Outputs
              /\ deployment[p].values["DeployDemoUI"] = <<"Yes">> =>
                    "DemoUrl" \in DOMAIN deployment[p].Outputs

C2_Witness ==
    /\ IS_CHINA_REGION
    /\ Complete(1)
    /\ "DemoUICertificateCondition" \in Created(1)
    /\ deployment[1].values["DeployDemoUI"] = <<"No">>
    /\ deployment[1].values["CorsEnabled"] = <<"Yes">>
    /\ "DemoUrl" \notin DOMAIN deployment[1].Outputs

\* C3: CorsOrigin is absent from the rendered result when CorsEnabled = "No"
\* and present with exactly the supplied CorsOrigin value when CorsEnabled =
\* "Yes"; CorsEnabled, SourceBuckets and LogRetentionPeriod carry no guard
\* and are always present.
C3_CorsOrigin ==
    \A p \in Passes :
        /\ \A id \in {"CorsEnabledOutput", "SourceBucketsOutput", "LogRetentionPeriodOutput"} :
              id \in OutputIds(p) => OutputOf(p, id).props.condition = Undefined
        /\ Complete(p) =>
              LET v == deployment[p].values
                  out == deployment[p].Outputs
              IN  /\ v["CorsEnabled"] = <<"No">> => "CorsOrigin" \notin DOMAIN out
                  /\ v["CorsEnabled"] = <<"Yes">> =>
                        "CorsOrigin" \in DOMAIN out /\ out["CorsOrigin"] = v["CorsOrigin"]
                  /\ {"CorsEnabled", "SourceBuckets", "LogRetentionPeriod"} \subseteq DOMAIN out
                  /\ out["CorsEnabled"] = v["CorsEnabled"]
                  /\ out["SourceBuckets"] = v["SourceBuckets"]
                  /\ out["LogRetentionPeriod"] = v["LogRetentionPeriod"]

C3_Witness ==
    /\ ~IS_CHINA_REGION
    /\ Complete(1)
    /\ deployment[1].values["DeployDemoUI"] = <<"Yes">>
    /\ deployment[1].values["CorsEnabled"] = <<"Yes">>
    /\ deployment[1].values["CorsOrigin"] = <<"https://example.com">>
    /\ deployment[1].Outputs["CorsOrigin"] = <<"https://example.com">>
    /\ deployment[1].Outputs["ApiEndpoint"] = <<"https://", "ImageHandlerDistribution.DomainName">>

\* C4: ApiEndpoint is selected by the existence of ApiCertificateCondition in
\* the child: if it exists, a deploy-time branch that resolves to
\* https://<ApiDomain> when the condition is true and http://<ApiDomain> when
\* it is false (ApiCertificateIamId = ""); otherwise
\* https://<ImageHandlerDistribution.DomainName>.  DemoUrl is selected the same
\* way by DemoUICertificateCondition alone.
C4_EndpointSelection ==
    \A p \in Passes :
        Complete(p) =>
            LET v == deployment[p].values
                out == deployment[p].Outputs
            IN  /\ out["ApiEndpoint"] =
                      IF "ApiCertificateCondition" \in Created(p)
                      THEN IF v["ApiCertificateIamId"] = <<>>
                           THEN <<"http://">> \o v["ApiDomain"]
                           ELSE <<"https://">> \o v["ApiDomain"]
                      ELSE <<"https://", "ImageHandlerDistribution.DomainName">>
                /\ "DemoUrl" \in DOMAIN out =>
                      out["DemoUrl"] =
                         IF "DemoUICertificateCondition" \in Created(p)
                         THEN IF v["DemoUICertificateIamId"] = <<>>
                              THEN <<"http://">> \o v["DemoUIDomain"] \o <<"/index.html">>
                              ELSE <<"https://">> \o v["DemoUIDomain"] \o <<"/index.html">>
                         ELSE <<"https://", "DemoDistribution.DomainName", "/index.html">>

C4_Witness ==
    /\ IS_CHINA_REGION
    /\ Complete(1)
    /\ "ApiCertificateCondition" \in Created(1)
    /\ "DemoUICertificateCondition" \notin Created(1)
    /\ deployment[1].values["ApiDomain"] = <<"a", ".", "a">>
    /\ deployment[1].values["ApiCertificateIamId"] = <<>>
    /\ deployment[1].Outputs["ApiEndpoint"] = <<"http://", "a", ".", "a">>
    /\ "ApiEndpointCNAME" \in DOMAIN deployment[1].Outputs
    /\ "DemoUrl" \in DOMAIN deployment[1].Outputs

\* The names an output value expression refers to through ${...} or Ref.
ValueRefs(e) ==
    IF e.fn = "Fn::If" THEN {e.valueIfTrue.var, e.valueIfFalse.var}
    ELSE IF e.fn = "Fn::Sub" THEN {e.var}
    ELSE {e.ref}

ResourceAttributes == {"ImageHandlerDistribution.DomainName", "DemoDistribution.DomainName"}

\* The parameters referred to by the groups, the property bag and the outputs
\* built so far.
GroupRefs(p) ==
    IF metadata[p] = Undefined THEN {}
    ELSE UNION {SeqToSet(g.Parameters) : g \in SeqToSet(metadata[p].Interface.ParameterGroups)}

PropsRefs(p) ==
    IF sihProps[p] = Unassigned THEN {}
    ELSE {sihProps[p][k].logicalId : k \in {j \in DOMAIN sihProps[p] : Truthy(sihProps[p][j])}}

OutputRefs(p) ==
    UNION {ValueRefs(o.props.value) : o \in SeqToSet(outputs[p])} \ ResourceAttributes

\* C5: at every step of a pass, every parameter referred to by a parameter
\* group, by the property bag handed to the child, or by an output value
\* (including ${ApiDomain} and ${DemoUIDomain}) is already declared, no handle
\* is read before it is assigned, and with the region flag false none of them
\* refers to a region-only parameter.
C5_NoForwardReference ==
    \A p \in Passes :
        /\ GroupRefs(p) \subseteq Declared(p)
        /\ PropsRefs(p) \subseteq Declared(p)
        /\ OutputRefs(p) \subseteq Declared(p)
        /\ sihProps[p] # Unassigned => \A k \in DOMAIN sihProps[p] : sihProps[p][k] # Unassigned
        /\ ~IS_CHINA_REGION =>
              (GroupRefs(p) \cup PropsRefs(p) \cup OutputRefs(p)) \cap FourRegionOnly = {}

C5_Witness ==
    /\ IS_CHINA_REGION
    /\ status[1] = "done"
    /\ {"ApiDomain", "DemoUIDomain"} \subseteq OutputRefs(1)
    /\ FourRegionOnly \subseteq GroupRefs(1) \cap PropsRefs(1)

HasInvalidCharacter(value) ==
    \E i \in 1..Len(value) : value[i] \notin AlNum \cup {"-", "."}

Attempted(p) == deployment[p] # NoDeployment

ConditionRefs(p) ==
    UNION {(IF o.props.condition = Undefined THEN {} ELSE {o.props.condition.logicalId})
           \cup (IF o.props.value.fn = "Fn::If" THEN {o.props.value.condition} ELSE {})
           : o \in SeqToSet(outputs[p])}

\* C9 as stated: a pass whose child component lacks any of the four
\* conditions the output statements look up fails.
C9_MissingConditionFails ==
    \A p \in Passes :
        status[p] = "done" =>
            {"DeployDemoUICondition", "EnableCorsCondition",
             "ApiCertificateCondition", "DemoUICertificateCondition"} \subseteq Created(p)

\* C9 amended: a pass completes only if the child defined both guard
\* conditions (DeployDemoUICondition, EnableCorsCondition), it fails at the
\* statement that looks a missing one up, and no declared output refers to a
\* condition the child did not define; a missing branch selector
\* (ApiCertificateCondition, DemoUICertificateCondition) does not fail the
\* pass but selects the distribution-domain value.
C9_GuardsValidated ==
    \A p \in Passes :
        /\ ConditionRefs(p) \subseteq Created(p)
        /\ status[p] = "done" =>
              {"DeployDemoUICondition", "EnableCorsCondition"} \subseteq Created(p)
        /\ status[p] = "failed" =>
              \/ Statements[pc[p]] = "DemoUrl" /\ "DeployDemoUICondition" \notin Created(p)
              \/ Statements[pc[p]] = "CorsOriginOutput" /\ "EnableCorsCondition" \notin Created(p)
        /\ ("ApiEndpoint" \in OutputIds(p) /\ "ApiCertificateCondition" \notin Created(p)) =>
              OutputOf(p, "ApiEndpoint").props.value =
                 [fn |-> "Fn::Sub", prefix |-> <<"https://">>,
                  var |-> "ImageHandlerDistribution.DomainName", suffix |-> <<>>]
        /\ ("DemoUrl" \in OutputIds(p) /\ "DemoUICertificateCondition" \notin Created(p)) =>
              OutputOf(p, "DemoUrl").props.value =
                 [fn |-> "Fn::Sub", prefix |-> <<"https://">>,
                  var |-> "DemoDistribution.DomainName", suffix |-> <<"/index.html">>]

C9_Witness ==
    /\ IS_CHINA_REGION
    /\ status[1] = "failed"
    /\ Created(1) = {"ApiCertificateCondition", "DeployDemoUICondition"}
    /\ Statements[pc[1]] = "CorsOriginOutput"
    /\ OutputIds(1) = {"ApiEndpoint", "ApiEndpointCNAME", "DemoUrl", "DemoUrlCNAME",
                       "SourceBucketsOutput", "CorsEnabledOutput"}

\* C10: with the region flag true, ApiEndpointCNAME and DemoUrlCNAME are
\* declared without a guard and are present in the rendered result of every
\* valuation, DemoUrlCNAME also when DeployDemoUI = "No" suppresses DemoUrl.
C10_CnameUnguarded ==
    \A p \in Passes :
        IS_CHINA_REGION =>
            /\ status[p] = "done" => {"ApiEndpointCNAME", "DemoUrlCNAME"} \subseteq OutputIds(p)
            /\ \A id \in {"ApiEndpointCNAME", "DemoUrlCNAME"} :
                  id \in OutputIds(p) => OutputOf(p, id).props.condition = Undefined
            /\ Complete(p) =>
                  /\ {"ApiEndpointCNAME", "DemoUrlCNAME"} \subseteq DOMAIN deployment[p].Outputs
                  /\ deployment[p].Outputs["ApiEndpointCNAME"] =
                        <<"ImageHandlerDistribution.DomainName">>
                  /\ deployment[p].Outputs["DemoUrlCNAME"] = <<"DemoDistribution.DomainName">>

C10_Witness ==
    /\ IS_CHINA_REGION
    /\ Complete(1)
    /\ deployment[1].values["DeployDemoUI"] = <<"No">>
    /\ "DemoUrl" \notin DOMAIN deployment[1].Outputs
    /\ "DemoUrlCNAME" \in DOMAIN deployment[1].Outputs

\* The identifiers of the present handles of a list, in order.
RECURSIVE PresentIds(_)
PresentIds(handles) ==
    IF handles = <<>> THEN <<>>
    ELSE (IF Head(handles) = Undefined THEN <<>> ELSE <<Head(handles).logicalId>>)
         \o PresentIds(Tail(handles))

GroupLabels(p) ==
    [i \in 1..Len(metadata[p].Interface.ParameterGroups) |->
        metadata[p].Interface.ParameterGroups[i].Label.default]

\* C6: paramGroup(label, handles) returns a group with that label whose
\* parameter list is exactly the identifiers of the present handles in input
\* order, also when that list is empty; paramGroupIf returns undefined when the
\* flag is false and the paramGroup result otherwise.  The stack's
\* ParameterGroups never holds an undefined entry: 7 groups without
\* 'API Configuration' and with 'Demo UI' listing only DeployDemoUI when the
\* region flag is false, 8 groups with 'API Configuration' first when it is
\* true.
C6_ParamGroups ==
    /\ call.fn = "paramGroup" =>
          /\ DOMAIN returned = {"Label", "Parameters"}
          /\ returned.Label = [default |-> call.label]
          /\ returned.Parameters = PresentIds(call.params)
    /\ call.fn = "paramGroupIf" =>
          IF call.expression
          THEN returned = [Label |-> [default |-> call.label],
                           Parameters |-> PresentIds(call.params)]
          ELSE returned = Undefined
    /\ \A p \in Passes :
          metadata[p] # Undefined =>
             LET groups == metadata[p].Interface.ParameterGroups
             IN  /\ \A i \in 1..Len(groups) : groups[i] # Undefined
                 /\ ~IS_CHINA_REGION =>
                       /\ Len(groups) = 7
                       /\ "API Configuration" \notin SeqToSet(GroupLabels(p))
                       /\ groups[3] = [Label |-> [default |-> "Demo UI"],
                                       Parameters |-> <<"DeployDemoUI">>]
                 /\ IS_CHINA_REGION =>
                       /\ Len(groups) = 8
                       /\ groups[1] = [Label |-> [default |-> "API Configuration"],
                                       Parameters |-> <<"ApiDomain", "ApiCertificateIamId">>]
                       /\ groups[4] = [Label |-> [default |-> "Demo UI"],
                                       Parameters |-> <<"DeployDemoUI", "DemoUIDomain",
                                                        "DemoUICertificateIamId">>]

C6_Witness ==
    /\ call.fn = "paramGroup"
    /\ call.params = <<Undefined, Undefined>>
    /\ returned = [Label |-> [default |-> "CORS Options"], Parameters |-> <<>>]
    /\ ~IS_CHINA_REGION
    /\ metadata[1] # Undefined

Finished(p) == status[p] \in {"done", "failed"}

\* What a pass has built.
Result(p) ==
    <<status[p], pc[p], locals[p], parameters[p], children[p], sihProps[p], metadata[p],
      serverlessImageHander[p], outputs[p]>>

Deterministic ==
    \A p, q \in Passes :
        (Finished(p) /\ Finished(q) /\ handlerSpec[p] = handlerSpec[q]) => Result(p) = Result(q)

\* A step that is not a step of pass p leaves everything pass p has built as
\* it was.
Isolated ==
    \A p \in Passes :
        (pc'[p] = pc[p] /\ status'[p] = status[p]) => Result(p)' = Result(p)

\* C8: two passes of one process with identical inputs and the same flag end
\* with identical registries, groups and outputs, and a step of one pass never
\* changes what another pass has built, however the passes are interleaved.
C8_IndependentPasses == []Deterministic /\ [][Isolated]_vars

C8_Witness ==
    /\ IS_CHINA_REGION
    /\ status[1] = "done"
    /\ status[2] = "done"
    /\ handlerSpec[1] = handlerSpec[2]
    /\ Len(parameters[2]) = 16
    /\ Len(outputs[1]) = 8

====
